---- MODULE Spec2Model ----
(***************************************************************************)
(* cfilter: a streaming text colorizer.  The model follows processFile     *)
(* (cfilter.go) and ParseColorize / Property (color.go).                   *)
(*                                                                         *)
(* Bytes are one-character strings; a byte string is a sequence of them.   *)
(* The byte 0x1b is written "ESC".  Offsets into a line are 0-based as in  *)
(* the Go code; Slice(s, lo, hi) is the Go slice s[lo:hi].                 *)
(***************************************************************************)
EXTENDS Integers, Sequences, FiniteSets, TLC

(***************************************************************************)
(* Bounds of the model.                                                    *)
(***************************************************************************)
\* longest input stream drawn over Alphabet
MaxStream == 5

\* longest input stream of the runs checked for termination
MaxFairStream == 3

Alphabet == {"a", "b", "\n"}

(***************************************************************************)
(* color.go: constants                                                     *)
(***************************************************************************)
AnsiStart == <<"ESC", "[">>
bold == 1
blink == 5
underline == 4
inverse == 7
backgroundColor == 10
revertProp == 20
brightColor == 60
ResetForeground == 39
ResetBackground == 49
ForegroundColor == "foreground"
BackgroundColor == "background"
BoldProperty == "bold"
BlinkProperty == "blink"
UnderlineProperty == "underline"
InverseProperty == "inverse"

AnsiColors ==
  [w \in {"black", "red", "green", "yellow", "blue", "magenta", "cyan", "white"} |->
     CASE w = "black" -> 30
       [] w = "red" -> 31
       [] w = "green" -> 32
       [] w = "yellow" -> 33
       [] w = "blue" -> 34
       [] w = "magenta" -> 35
       [] w = "cyan" -> 36
       [] w = "white" -> 37]

AnsiProperties ==
  [k \in {BoldProperty, BlinkProperty, UnderlineProperty, InverseProperty} |->
     CASE k = BoldProperty -> bold
       [] k = BlinkProperty -> blink
       [] k = UnderlineProperty -> underline
       [] k = InverseProperty -> inverse]

(***************************************************************************)
(* Go maps: a map is a function whose domain is the set of keys present.   *)
(***************************************************************************)
EmptyMap == [k \in {} |-> 0]

\* m[k] = v
MapPut(m, k, v) == [x \in (DOMAIN m) \cup {k} |-> IF x = k THEN v ELSE m[x]]

\* m[k] as an rvalue: the zero value when the key is absent
MapGet(m, k) == IF k \in DOMAIN m THEN m[k] ELSE 0

\* the value of F at v, with v worked out once, before F is
Eval(v, F(_)) == CHOOSE y \in {F(x) : x \in {v}} : TRUE

(***************************************************************************)
(* color.go: ParseColorize.  spec is the sequence of words that the split  *)
(* on [ \t]+ yields.                                                       *)
(***************************************************************************)
\* strings.ToLower on the words the model uses
ToLower(word) ==
  CASE word = "FG" -> "fg"
    [] word = "BG" -> "bg"
    [] word = "Red" -> "red"
    [] word = "BOLD" -> "bold"
    [] OTHER -> word

\* one iteration of the loop over the words; st holds c, colorAddon, colorType
ParseWord(st, w) ==
  LET word == ToLower(w) IN
  IF st.panic THEN st
  ELSE IF word \in {"bg", "background"} THEN
    [st EXCEPT !.colorType = BackgroundColor,
               !.c = MapPut(st.c, BackgroundColor, 0),
               !.colorAddon = backgroundColor]
  ELSE IF word \in {"fg", "foreground"} THEN
    [st EXCEPT !.colorType = ForegroundColor,
               !.c = MapPut(st.c, ForegroundColor, 0),
               !.colorAddon = 0]
  ELSE IF word = "bright" THEN
    [st EXCEPT !.colorAddon = st.colorAddon + brightColor]
  ELSE IF word \in DOMAIN AnsiColors THEN
    [st EXCEPT !.c = MapPut(st.c, st.colorType, st.colorAddon + AnsiColors[word])]
  ELSE IF word \in DOMAIN AnsiProperties THEN
    [st EXCEPT !.c = MapPut(st.c, word, AnsiProperties[word])]
  ELSE IF word # "" THEN
    [st EXCEPT !.panic = TRUE]
  ELSE st

RECURSIVE ParseWords(_, _)
ParseWords(st, spec) ==
  Eval(<<st, spec>>, LAMBDA a :
    IF a[2] = <<>> THEN a[1]
    ELSE ParseWords(ParseWord(a[1], Head(a[2])), Tail(a[2])))

ParseState(spec) ==
  ParseWords([c |-> EmptyMap, colorAddon |-> 0, colorType |-> ForegroundColor,
              panic |-> FALSE], spec)

ParseColorize(spec) == ParseState(spec).c

\* a variant of Property whose off code is always the on code plus revertProp
PropertyPlainRevert(name, isset) ==
  IF name \notin DOMAIN AnsiProperties THEN 0
  ELSE IF ~isset THEN AnsiProperties[name] + revertProp
  ELSE AnsiProperties[name]

(***************************************************************************)
(* color.go: Property                                                      *)
(***************************************************************************)
Property(name, isset) ==
  IF name \notin DOMAIN AnsiProperties THEN 0
  ELSE IF ~isset
       THEN (IF name = "bold" THEN 2 ELSE AnsiProperties[name]) + revertProp
       ELSE AnsiProperties[name]

(***************************************************************************)
(* fmt.Sprintf("%d", n) for n >= 0                                         *)
(***************************************************************************)
Digit(d) ==
  CASE d = 0 -> "0" [] d = 1 -> "1" [] d = 2 -> "2" [] d = 3 -> "3" [] d = 4 -> "4"
    [] d = 5 -> "5" [] d = 6 -> "6" [] d = 7 -> "7" [] d = 8 -> "8" [] d = 9 -> "9"

RECURSIVE Itoa(_)
Itoa(n) == IF n < 10 THEN <<Digit(n)>> ELSE Itoa(n \div 10) \o <<Digit(n % 10)>>

(***************************************************************************)
(* Byte-string helpers                                                     *)
(***************************************************************************)
\* the Go slice s[lo:hi]
Slice(s, lo, hi) == SubSeq(s, lo + 1, hi)

RECURSIVE Flatten(_)
Flatten(ss) == IF ss = <<>> THEN <<>> ELSE Head(ss) \o Flatten(Tail(ss))

(***************************************************************************)
(* regexp: the rules of the model are literal regular expressions.  RE.lit *)
(* is the literal, RE.sub[g] = <<s, e>> the place of capture group g       *)
(* inside a match of it.                                                   *)
(***************************************************************************)
\* the index array of the match of re that starts at offset i
MatchAt(re, i) ==
  [p \in 0..(2 * Len(re.sub) + 1) |->
     IF p = 0 THEN i
     ELSE IF p = 1 THEN i + Len(re.lit)
     ELSE i + re.sub[p \div 2][(p % 2) + 1]]

\* RE.FindAllSubmatchIndex(line, -1): leftmost matches that do not overlap,
\* <<>> (nil) when there is none
RECURSIVE FindFrom(_, _, _)
FindFrom(re, line, i) ==
  IF i + Len(re.lit) > Len(line) THEN <<>>
  ELSE IF Slice(line, i, i + Len(re.lit)) = re.lit
       THEN <<MatchAt(re, i)>> \o FindFrom(re, line, i + Len(re.lit))
       ELSE FindFrom(re, line, i + 1)

FindAllSubmatchIndex(re, line) == FindFrom(re, line, 0)

(***************************************************************************)
(* The rules of the model, as parsePattern builds them.                    *)
(***************************************************************************)
LinePositionStartKind == 0
LinePositionEndKind == 1

\* /(?P<x>a)/x:fg red bold
PatA ==
  [RE |-> [lit |-> <<"a">>, sub |-> << <<0, 1>> >>],
   Groups |-> << [Name |-> "x", Number |-> 1,
                  Colorize |-> ParseColorize(<<"fg", "red", "bold">>)] >>]

\* /(?P<y>b)/y:BG green
PatB ==
  [RE |-> [lit |-> <<"b">>, sub |-> << <<0, 1>> >>],
   Groups |-> << [Name |-> "y", Number |-> 1,
                  Colorize |-> ParseColorize(<<"BG", "green">>)] >>]

\* /(?P<x>ab)/x:fg yellow bold underline
PatAB ==
  [RE |-> [lit |-> <<"a", "b">>, sub |-> << <<0, 2>> >>],
   Groups |-> << [Name |-> "x", Number |-> 1,
                  Colorize |-> ParseColorize(<<"fg", "yellow", "bold", "underline">>)] >>]

\* /(?P<x>ba)/x:bright blue bg white BOLD
PatBA ==
  [RE |-> [lit |-> <<"b", "a">>, sub |-> << <<0, 2>> >>],
   Groups |-> << [Name |-> "x", Number |-> 1,
                  Colorize |-> ParseColorize(<<"bright", "blue", "bg", "white", "BOLD">>)] >>]

\* /(?P<x>a)(?P<y>b)/x:fg red,y:fg blue
PatTwo ==
  [RE |-> [lit |-> <<"a", "b">>, sub |-> << <<0, 1>>, <<1, 2>> >>],
   Groups |-> << [Name |-> "x", Number |-> 1,
                  Colorize |-> ParseColorize(<<"fg", "red">>)],
                 [Name |-> "y", Number |-> 2,
                  Colorize |-> ParseColorize(<<"fg", "blue">>)] >>]

\* /(?P<x>b(?P<y>a))/x:bg cyan,y:fg magenta inverse
PatNest ==
  [RE |-> [lit |-> <<"b", "a">>, sub |-> << <<0, 2>>, <<1, 2>> >>],
   Groups |-> << [Name |-> "x", Number |-> 1,
                  Colorize |-> ParseColorize(<<"bg", "cyan">>)],
                 [Name |-> "y", Number |-> 2,
                  Colorize |-> ParseColorize(<<"fg", "magenta", "inverse">>)] >>]

\* /(?P<x>aba)/x:fg yellow
PatOuter ==
  [RE |-> [lit |-> <<"a", "b", "a">>, sub |-> << <<0, 3>> >>],
   Groups |-> << [Name |-> "x", Number |-> 1,
                  Colorize |-> ParseColorize(<<"fg", "yellow">>)] >>]

\* /(?P<x>a(?P<y>b)a)/x:fg red,y:bg green
PatInner ==
  [RE |-> [lit |-> <<"a", "b", "a">>, sub |-> << <<0, 3>>, <<1, 2>> >>],
   Groups |-> << [Name |-> "x", Number |-> 1,
                  Colorize |-> ParseColorize(<<"fg", "red">>)],
                 [Name |-> "y", Number |-> 2,
                  Colorize |-> ParseColorize(<<"bg", "green">>)] >>]

\* /b/
PatNone ==
  [RE |-> [lit |-> <<"b">>, sub |-> <<>>], Groups |-> <<>>]

\* /(?P<x>)a(?P<y>b)/x:fg Red     (x captures the empty string, y has no colorspec)
PatZero ==
  [RE |-> [lit |-> <<"a", "b">>, sub |-> << <<0, 0>>, <<1, 2>> >>],
   Groups |-> << [Name |-> "x", Number |-> 1,
                  Colorize |-> ParseColorize(<<"fg", "Red">>)] >>]

\* /(?P<x>a)/x:      (an empty colorspec)
PatNull ==
  [RE |-> [lit |-> <<"a">>, sub |-> << <<0, 1>> >>],
   Groups |-> << [Name |-> "x", Number |-> 1,
                  Colorize |-> ParseColorize(<<"">>)] >>]

\* /(?P<x>ERROR)/x:fg red bold
PatError ==
  [RE |-> [lit |-> <<"E", "R", "R", "O", "R">>, sub |-> << <<0, 5>> >>],
   Groups |-> << [Name |-> "x", Number |-> 1,
                  Colorize |-> ParseColorize(<<"fg", "red", "bold">>)] >>]

\* the pattern lists the streams over Alphabet are filtered with
Configs ==
  { <<PatA, PatB>>, <<PatB, PatA>>, <<PatAB, PatBA>>, <<PatBA, PatTwo>>,
    <<PatOuter, PatInner>>, <<PatNest>>, <<PatNone, PatZero>>, <<PatNull, PatNone>> }

(***************************************************************************)
(* bufio: the reader of processFile                                        *)
(***************************************************************************)
\* var bufferSize = 4096, the value when --bufsize is not given
DefaultBufferSize == 4096

\* bufio.NewReaderSize: the buffer has at least 16 bytes
NewReaderSize(size) == IF size < 16 THEN 16 ELSE size

\* offset of the first "\n" of s at or after i; Len(s) when there is none
RECURSIVE IndexNewline(_, _)
IndexNewline(s, i) ==
  IF i >= Len(s) THEN Len(s)
  ELSE IF s[i + 1] = "\n" THEN i
  ELSE IndexNewline(s, i + 1)

\* reader.ReadSlice('\n') on the unread bytes src with a buffer of size bytes:
\* the bytes up to and including the newline; the full buffer with
\* ErrBufferFull when it holds no newline; the rest of the stream with the
\* error srcErr that rd returns after its last byte (io.EOF at the end of the
\* stream, another error when the read fails)
ReadSlice(src, size, srcErr) ==
  LET n == IndexNewline(src, 0) IN
  IF n < Len(src) /\ n + 1 <= size THEN
    [line |-> Slice(src, 0, n + 1), rest |-> Slice(src, n + 1, Len(src)), err |-> "nil"]
  ELSE IF Len(src) >= size THEN
    [line |-> Slice(src, 0, size), rest |-> Slice(src, size, Len(src)),
     err |-> "ErrBufferFull"]
  ELSE
    [line |-> src, rest |-> <<>>, err |-> srcErr]

(***************************************************************************)
(* processFile: match collection                                           *)
(***************************************************************************)
\* a variant of MatchPositions that keeps the empty captures
MatchPositionsKeepEmpty(n, group, match) ==
  LET pos == group.Number * 2 IN
  << [Kind |-> LinePositionStartKind, Order |-> n, Offset |-> match[pos],
      Colorize |-> group.Colorize],
     [Kind |-> LinePositionEndKind, Order |-> n, Offset |-> match[pos + 1],
      Colorize |-> group.Colorize] >>

\* the two LinePositions appended for group of pattern n (0-based) in match
MatchPositions(n, group, match) ==
  LET pos == group.Number * 2 IN
  IF match[pos] = match[pos + 1] THEN <<>>
  ELSE << [Kind |-> LinePositionStartKind, Order |-> n, Offset |-> match[pos],
           Colorize |-> group.Colorize],
          [Kind |-> LinePositionEndKind, Order |-> n, Offset |-> match[pos + 1],
           Colorize |-> group.Colorize] >>

\* for _, match := range res
GroupPositions(n, group, res) ==
  Flatten([m \in 1..Len(res) |-> MatchPositions(n, group, res[m])])

\* for i, group := range pattern.Groups
PatternPositions(n, pattern, ln) ==
  LET res == FindAllSubmatchIndex(pattern.RE, ln) IN
  IF res = <<>> THEN <<>>
  ELSE Flatten([i \in 1..Len(pattern.Groups) |->
                  GroupPositions(n, pattern.Groups[i], res)])

\* for n, pattern := range patterns: positions in the order of the appends
CollectPositions(pats, ln) ==
  Flatten([n \in 1..Len(pats) |-> PatternPositions(n - 1, pats[n], ln)])

\* a variant of LineMatches that takes every line for matched
LineMatchesAlways(pats, ln) == TRUE

\* lineMatches after the loop over the patterns
LineMatches(pats, ln) ==
  \E n \in 1..Len(pats) : FindAllSubmatchIndex(pats[n].RE, ln) # <<>>

(***************************************************************************)
(* sort.Sort(positions) with Less comparing Offset alone.  Package sort    *)
(* sorts a short slice by insertion sort alone, which keeps equal offsets  *)
(* in the order of the appends; for a longer slice it promises ascending   *)
(* offsets and no order among equal ones.                                  *)
(***************************************************************************)
\* the longest slice that every release of package sort sorts by insertion
\* sort alone
InsertionSortMax == 6

\* LinePositions.Less
Less(p, q) == p.Offset < q.Offset

\* ps with the element at index i moved down while it is Less than the one before
RECURSIVE SiftDown(_, _)
SiftDown(ps, i) ==
  IF i > 1 /\ Less(ps[i], ps[i - 1])
  THEN SiftDown([ps EXCEPT ![i] = ps[i - 1], ![i - 1] = ps[i]], i - 1)
  ELSE ps

RECURSIVE InsertionSortFrom(_, _)
InsertionSortFrom(ps, i) ==
  IF i > Len(ps) THEN ps ELSE InsertionSortFrom(SiftDown(ps, i), i + 1)

InsertionSort(ps) == InsertionSortFrom(ps, 2)

MinOffset(ps, S) == CHOOSE m \in {ps[i].Offset : i \in S} :
                      \A i \in S : m <= ps[i].Offset

\* the orders of the elements of ps with the indices S that ascend by offset
RECURSIVE SortedOrders(_, _)
SortedOrders(ps, S) ==
  IF S = {} THEN {<<>>}
  ELSE UNION { { <<ps[i]>> \o t : t \in SortedOrders(ps, S \ {i}) } :
               i \in {j \in S : ps[j].Offset = MinOffset(ps, S)} }

SortOutcomes(ps) ==
  IF Len(ps) <= InsertionSortMax THEN {InsertionSort(ps)}
  ELSE SortedOrders(ps, DOMAIN ps)

(***************************************************************************)
(* processFile: one iteration of the sweep over the sorted positions       *)
(***************************************************************************)
\* a variant of BumpProperties that counts up on every event
BumpPropertiesUp(props, colorize, d) ==
  LET touched == (DOMAIN AnsiProperties) \cap (DOMAIN colorize) IN
  [k \in (DOMAIN props) \cup touched |->
     MapGet(props, k) + (IF k \in touched THEN 1 ELSE 0)]

\* a variant of BumpProperties that leaves the counters alone on an end event
BumpPropertiesStartOnly(props, colorize, d) ==
  LET touched == (DOMAIN AnsiProperties) \cap (DOMAIN colorize) IN
  [k \in (DOMAIN props) \cup touched |->
     MapGet(props, k) + (IF k \in touched /\ d > 0 THEN d ELSE 0)]

\* lineProperties after the loop over AnsiProperties with lineProperties[k] += d
BumpProperties(props, colorize, d) ==
  LET touched == (DOMAIN AnsiProperties) \cap (DOMAIN colorize) IN
  [k \in (DOMAIN props) \cup touched |->
     MapGet(props, k) + (IF k \in touched THEN d ELSE 0)]

\* a variant of ApplyProperties whose end event switches the property off
ApplyPropertiesReset(props, pos) ==
  IF pos.Kind = LinePositionStartKind THEN BumpProperties(props, pos.Colorize, 1)
  ELSE [k \in DOMAIN props |-> IF k \in DOMAIN pos.Colorize THEN 0 ELSE props[k]]

\* lineProperties after the switch on pos.Kind
ApplyProperties(props, pos) ==
  IF pos.Kind = LinePositionStartKind THEN BumpProperties(props, pos.Colorize, 1)
  ELSE BumpProperties(props, pos.Colorize, -1)

\* a variant of ApplyColor whose end event leaves the contribution in place
ApplyColorKeep(colors, pos, key) ==
  IF pos.Kind = LinePositionStartKind
  THEN [colors EXCEPT ![pos.Order] = MapGet(pos.Colorize, key)]
  ELSE colors

\* lineColorFG / lineColorBG after the switch on pos.Kind; key names the channel
ApplyColor(colors, pos, key) ==
  IF pos.Kind = LinePositionStartKind
  THEN [colors EXCEPT ![pos.Order] = MapGet(pos.Colorize, key)]
  ELSE [colors EXCEPT ![pos.Order] = 0]

\* the loop from the last pattern down: the first contribution > 0, or 0
RECURSIVE FindColor(_, _)
FindColor(colors, n) ==
  IF n < 0 THEN 0
  ELSE IF colors[n] > 0 THEN colors[n]
  ELSE FindColor(colors, n - 1)

\* foundFG / foundBG after the defaults are filled in
Found(colors, npat, reset) ==
  LET f == FindColor(colors, npat - 1) IN IF f = 0 THEN reset ELSE f

\* the orders in which a range over a map with the keys K may visit them
KeyOrders(K) ==
  {o \in [1..Cardinality(K) -> K] : \A i, j \in DOMAIN o : i # j => o[i] # o[j]}

\* a variant of PropsString with a code for each of the four property keys
PropsStringAll(props, o) ==
  LET all == <<BoldProperty, BlinkProperty, UnderlineProperty, InverseProperty>> IN
  Flatten([i \in DOMAIN all |->
             Itoa(Property(all[i], MapGet(props, all[i]) > 0)) \o <<";">>])

\* props: fmt.Sprintf("%d;", Property(k, v > 0)) for the keys in the order o
PropsString(props, o) ==
  Flatten([i \in DOMAIN o |-> Itoa(Property(o[i], props[o[i]] > 0)) \o <<";">>])

\* fmt.Sprintf("%s%s%d;%dm", AnsiStart, props, foundFG, foundBG)
EscapeString(propstr, fg, bg) ==
  AnsiStart \o propstr \o Itoa(fg) \o <<";">> \o Itoa(bg) \o <<"m">>

\* a variant of ShouldWrite that writes every escape
ShouldWriteAlways(prev, esc) == TRUE

\* prevEscape != escape
ShouldWrite(prev, esc) == prev # esc

\* a variant of LineTail that writes the line from its start
LineTailWhole(ln, off) == ln

\* line[lineOffset:], the argument of the write after the loop
LineTail(ln, off) == Slice(ln, off, Len(ln))

\* a variant of Write that puts the bytes before those written earlier
WriteFront(w, isEscape, bytes) == <<[esc |-> isEscape, data |-> bytes]>> \o w

\* wr.Write: one write to the sink; esc tells the escapes from the input bytes
Write(w, isEscape, bytes) == Append(w, [esc |-> isEscape, data |-> bytes])

(***************************************************************************)
(* The rules.  A rule line is a sequence of tokens: the bytes "/", ",",    *)
(* ":", " " and "#" are tokens of their own, a word or the body of a       *)
(* regular expression is one token.                                        *)
(***************************************************************************)
\* strings.TrimSpace
RECURSIVE TrimLeft(_)
TrimLeft(s) ==
  Eval(s, LAMBDA t : IF t # <<>> /\ Head(t) = " " THEN TrimLeft(Tail(t)) ELSE t)

RECURSIVE TrimRight(_)
TrimRight(s) ==
  Eval(s, LAMBDA t : IF t # <<>> /\ t[Len(t)] = " "
                     THEN TrimRight(SubSeq(t, 1, Len(t) - 1)) ELSE t)

TrimSpace(s) == TrimRight(TrimLeft(s))

\* strings.LastIndexByte, counted in tokens from 0
LastIndexByte(s, c) ==
  Eval(s, LAMBDA t :
    IF \E i \in DOMAIN t : t[i] = c
    THEN (CHOOSE i \in DOMAIN t : t[i] = c /\ \A j \in DOMAIN t : t[j] = c => j <= i) - 1
    ELSE -1)

\* strings.Index, counted in tokens from 0
Index(s, c) ==
  Eval(s, LAMBDA t :
    IF \E i \in DOMAIN t : t[i] = c
    THEN (CHOOSE i \in DOMAIN t : t[i] = c /\ \A j \in DOMAIN t : t[j] = c => i <= j) - 1
    ELSE -1)

\* strings.Split
RECURSIVE Split(_, _)
Split(s, sep) ==
  Eval(<<s, Index(s, sep)>>, LAMBDA a :
    IF a[2] = -1 THEN <<a[1]>>
    ELSE <<Slice(a[1], 0, a[2])>> \o Split(Slice(a[1], a[2] + 1, Len(a[1])), sep))

\* the string a sequence of tokens spells
RECURSIVE Join(_)
Join(s) == Eval(s, LAMBDA t : IF t = <<>> THEN "" ELSE Head(t) \o Join(Tail(t)))

\* a run of separators is one separator to the split on [ \t]+
RECURSIVE Squeeze(_)
Squeeze(s) ==
  Eval(s, LAMBDA t :
    IF Len(t) < 2 THEN t
    ELSE IF t[1] = " " /\ t[2] = " " THEN Squeeze(Tail(t))
    ELSE <<Head(t)>> \o Squeeze(Tail(t)))

\* regexp.MustCompile("[ \t]+").Split(spec, -1)
SplitWords(spec) ==
  Eval(Split(Squeeze(spec), " "), LAMBDA parts : [i \in DOMAIN parts |-> Join(parts[i])])

\* regexp.Compile on the bodies the rules of the model hold, with SubexpNames
\* from index 1 on
Compile(body) ==
  CASE body = <<"(?P<x>a)">> -> [err |-> "nil", RE |-> PatA.RE, names |-> <<"x">>]
    [] body = <<"(?P<y>b)">> -> [err |-> "nil", RE |-> PatB.RE, names |-> <<"y">>]
    [] body = <<"b">> -> [err |-> "nil", RE |-> PatNone.RE, names |-> <<>>]
    [] body = <<"(?P<x>a">> -> [err |-> "error parsing regexp: missing closing )"]
    [] OTHER -> [err |-> "error parsing regexp"]

\* one iteration of the loop over the groups of a rule: s is the group
ParseGroup(st, s) ==
  Eval(Split(s, ":"), LAMBDA pair :
    IF Len(s) = 0 THEN st
    ELSE IF Len(pair) # 2 THEN [st EXCEPT !.err = "bad format: can not parse group"]
    ELSE Eval(ParseState(SplitWords(pair[2])), LAMBDA c :
           IF c.panic THEN [st EXCEPT !.panic = TRUE]
           ELSE [st EXCEPT !.names = MapPut(st.names, Join(TrimSpace(pair[1])), c.c)]))

\* the loop over the groups of a rule: the map names, or the error, or the
\* panic of ParseColorize
RECURSIVE ParseGroups(_, _)
ParseGroups(st, items) ==
  Eval(<<st, items>>, LAMBDA a :
    IF a[2] = <<>> \/ a[1].err # "nil" \/ a[1].panic THEN a[1]
    ELSE ParseGroups(ParseGroup(a[1], Head(a[2])), Tail(a[2])))

\* the loop over SubexpNames: the named groups the rule colours
RuleGroups(subexpNames, names) ==
  LET all == [i \in DOMAIN subexpNames |->
                [Name |-> subexpNames[i], Number |-> i,
                 Colorize |-> IF subexpNames[i] \in DOMAIN names
                              THEN names[subexpNames[i]] ELSE EmptyMap]]
      Named(g) == g.Name # "" /\ g.Name \in DOMAIN names
  IN SelectSeq(all, Named)

\* a variant of ParseFailure that takes the malformed rule for a rule
\* without groups
ParseFailureIgnored(msg) == [err |-> "nil", panic |-> FALSE, pattern |-> PatNone]

ParseFailure(msg) == [err |-> msg, panic |-> FALSE]

\* parsePattern from regexp.Compile on: l is the trimmed line, last the index
\* of its last "/"
CompileRule(l, last) ==
  Eval(Compile(Slice(l, 1, last)), LAMBDA re :
    IF re.err # "nil" THEN ParseFailure(re.err)
    ELSE Eval(ParseGroups([names |-> [k \in {} |-> EmptyMap], err |-> "nil",
                           panic |-> FALSE],
                          Split(Slice(l, last + 1, Len(l)), ",")),
              LAMBDA st :
                IF st.panic THEN [err |-> "nil", panic |-> TRUE]
                ELSE IF st.err # "nil" THEN ParseFailure(st.err)
                ELSE [err |-> "nil", panic |-> FALSE,
                      pattern |-> [RE |-> re.RE,
                                   Groups |-> RuleGroups(re.names, st.names)]]))

parsePattern(ln) ==
  Eval(TrimSpace(ln), LAMBDA l :
    Eval(LastIndexByte(l, "/"), LAMBDA last :
      IF Len(l) = 0 THEN ParseFailure("bad format: empty rule")
      ELSE IF l[1] # "/" THEN
        ParseFailure("bad format: unexpected begin of regular expression")
      ELSE IF last = -1 THEN
        ParseFailure("bad format: can not find end of regular expression")
      ELSE IF last <= 1 THEN ParseFailure("bad format: empty regular expression")
      ELSE CompileRule(l, last)))

\* a loop that parses rule after rule and appends the patterns to pats, up
\* to the first rule that fails
RECURSIVE ParseRules(_, _)
ParseRules(pats, lines) ==
  Eval(<<pats, lines>>, LAMBDA a :
    IF a[2] = <<>> THEN [err |-> "nil", panic |-> FALSE, patterns |-> a[1]]
    ELSE Eval(parsePattern(Head(a[2])), LAMBDA p :
           IF p.panic \/ p.err # "nil"
           THEN [err |-> p.err, panic |-> p.panic, patterns |-> a[1]]
           ELSE ParseRules(Append(a[1], p.pattern), Tail(a[2]))))

\* the lines readPatternsFromFile hands to parsePattern
IsRuleLine(ln) == Len(TrimSpace(ln)) # 0 /\ TrimSpace(ln)[1] # "#"

readPatternsFromFile(file) ==
  Eval(ParseRules(<<>>, SelectSeq(file.lines, IsRuleLine)), LAMBDA r :
    IF r.panic \/ r.err # "nil" THEN r
    ELSE IF file.readErr # "EOF" THEN [r EXCEPT !.err = file.readErr]
    ELSE r)

(***************************************************************************)
(* The inputs: a pattern list, the bytes of the stream and --bufsize.      *)
(***************************************************************************)
Streams == UNION {[1..k -> Alphabet] : k \in 0..MaxStream}

LineError ==
  <<"a", "n", " ", "E", "R", "R", "O", "R", " ", "o", "c", "c", "u", "r", "r", "e", "d">>

\* a line with eight positions under the rules PatB, PatA, PatA
LineTies == <<"a", "b", "b">>

\* a line on which a rule given twice opens two spans at one offset
LineTwice == <<"a", "b">>

LineSplit ==
  <<"a", "n", " ", "e", "r", "r", "o", "r", ",", " ", "a", "n", " ", "E", "R", "R", "O", "R">>

\* the error of a read that fails: any error value other than io.EOF and
\* bufio.ErrBufferFull
ReadFailure == "EIO"

Inputs ==
  {[patterns |-> c, input |-> s, bufferSize |-> DefaultBufferSize, srcErr |-> "EOF"] :
     c \in Configs, s \in Streams}
  \cup
  {[patterns |-> <<PatError>>, input |-> s, bufferSize |-> b, srcErr |-> "EOF"] :
     s \in {LineError, LineError \o <<"\n">>, LineSplit \o <<"\n">>},
     b \in {16, DefaultBufferSize}}
  \cup
  {[patterns |-> <<PatA, PatB>>, input |-> s, bufferSize |-> DefaultBufferSize,
    srcErr |-> ReadFailure] : s \in Streams}
  \cup
  {[patterns |-> <<PatB, PatA, PatA>>, input |-> LineTies,
    bufferSize |-> DefaultBufferSize, srcErr |-> "EOF"],
   [patterns |-> <<PatAB, PatAB>>, input |-> LineTwice,
    bufferSize |-> DefaultBufferSize, srcErr |-> "EOF"]}

(***************************************************************************)
(* processFile(patterns, rd, wr)                                           *)
(***************************************************************************)
VARIABLES
  patterns,        \* the compiled rules, in declaration order
  bufferSize,      \* the package variable set by --bufsize
  input,           \* the bytes of rd that the reader has not returned yet
  srcErr,          \* the error rd returns after its last byte
  pc,              \* "read": at the head of the for loop; "sweep": in the loop
                   \* over positions; "done": returned
  line,            \* the slice ReadSlice returned last
  readerErr,
  lineMatches,
  positions,       \* the sorted positions of line
  idx,             \* the index in positions of the next iteration (from 1)
  lineOffset,
  prevEscape,
  lineColorFG,
  lineColorBG,
  lineProperties,
  foundFG,
  foundBG,
  escape,          \* the escape built by the last iteration
  out,             \* the writes made to wr so far
  outMark,         \* Len(out) when line was read
  lineNum,         \* the number of ReadSlice calls made
  ret,             \* the value processFile returned: "nil" or an error; "none"
                   \* while it runs
  \* main
  argv,            \* the command line and what it names: rules file, stdin
  mainPc,          \* the place of main
  fileNum,         \* how many of the input files main has opened
  exitCode,        \* the exit status of the process; Running while it runs
  errlog,          \* what errorf and a panic have written to os.Stderr
  \* processCommand
  filter,          \* CommandFilter.Stdout and .Stderr
  cmdPc,           \* the place of processCommand
  wg,              \* the counter of the sync.WaitGroup
  drv,             \* per filtered stream: the pipe and the goroutine reading it
  running,         \* the stream whose goroutine holds the processFile variables
  child            \* the child process

\* the value of exitCode while the process runs
Running == -1

\* the value of child before cmd.Start()
NoChild == [kind |-> "none", status |-> 0]

\* the variables of one call of processFile
procVars ==
  <<input, srcErr, pc, line, readerErr, lineMatches, positions, idx, lineOffset,
    prevEscape, lineColorFG, lineColorBG, lineProperties, foundFG, foundBG, escape,
    out, outMark, lineNum, ret>>

hostVars == <<argv, mainPc, fileNum, exitCode, errlog>>

cmdVars == <<filter, cmdPc, wg, drv, running, child>>

vars == <<patterns, bufferSize, procVars, hostVars, cmdVars>>

\* main is not part of the run: processFile is looked at on its own
HostIdle ==
  /\ argv = <<>>
  /\ mainPc = "idle"
  /\ fileNum = 0
  /\ exitCode = Running
  /\ errlog = <<>>

\* processCommand is not part of the run
CmdIdle ==
  /\ filter = [Stdout |-> FALSE, Stderr |-> FALSE]
  /\ cmdPc = "idle"
  /\ wg = 0
  /\ drv = <<>>
  /\ running = "none"
  /\ child = NoChild

Init ==
  /\ \E i \in Inputs :
       /\ patterns = i.patterns
       /\ input = i.input
       /\ bufferSize = i.bufferSize
       /\ srcErr = i.srcErr
  /\ pc = "read"
  /\ line = <<>>
  /\ readerErr = "nil"
  /\ lineMatches = FALSE
  /\ positions = <<>>
  /\ idx = 1
  /\ lineOffset = 0
  /\ prevEscape = <<>>
  /\ lineColorFG = [n \in 0..(Len(patterns) - 1) |-> 0]
  /\ lineColorBG = [n \in 0..(Len(patterns) - 1) |-> 0]
  /\ lineProperties = EmptyMap
  /\ foundFG = 0
  /\ foundBG = 0
  /\ escape = <<>>
  /\ out = <<>>
  /\ outMark = 0
  /\ lineNum = 0
  /\ ret = "none"
  /\ HostIdle
  /\ CmdIdle

\* where the for loop goes after the body: its condition is readerErr == nil
LoopHead(err) == IF err = "nil" THEN "read" ELSE "done"

\* a variant of IsReadFailure that takes no error for a failure
IsReadFailureNever(err) == FALSE

\* readerErr != nil && readerErr != io.EOF
IsReadFailure(err) == err \notin {"nil", "EOF"}

\* return nil when the for loop ends
LoopReturn(err) == IF err = "nil" THEN "none" ELSE "nil"

\* One pass of the for loop up to the sweep: ReadSlice, the return on a read
\* error, the match collection, the sort, and for a line without positions the
\* pass-through write.
ReadLine ==
  /\ pc = "read"
  /\ \E r \in {ReadSlice(input, NewReaderSize(bufferSize), srcErr)} :
     \E collected \in {CollectPositions(patterns, r.line)} :
     LET err == IF r.err = "ErrBufferFull" THEN "nil" ELSE r.err
         matched == LineMatches(patterns, r.line)
     IN /\ input' = r.rest
        /\ line' = r.line
        /\ readerErr' = err
        /\ lineNum' = lineNum + 1
        /\ outMark' = Len(out)
        /\ IF IsReadFailure(err)
           THEN /\ ret' = err
                /\ pc' = "done"
                /\ lineMatches' = FALSE
                /\ positions' = <<>>
                /\ out' = out
                /\ UNCHANGED <<idx, lineOffset, prevEscape>>
           ELSE IF Len(collected) > 0
           THEN /\ positions' \in SortOutcomes(collected)
                /\ lineMatches' = matched
                /\ idx' = 1
                /\ lineOffset' = 0
                /\ prevEscape' = <<>>
                /\ out' = out
                /\ pc' = "sweep"
                /\ ret' = ret
           ELSE /\ positions' = <<>>
                /\ lineMatches' = matched
                /\ out' = IF matched THEN Write(out, FALSE, r.line) ELSE out
                /\ pc' = LoopHead(err)
                /\ ret' = LoopReturn(err)
                /\ UNCHANGED <<idx, lineOffset, prevEscape>>
  /\ UNCHANGED <<patterns, bufferSize, srcErr, lineColorFG, lineColorBG,
                 lineProperties, foundFG, foundBG, escape>>
  /\ UNCHANGED <<hostVars, cmdVars>>

\* One iteration of the loop over positions.
SweepStep ==
  /\ pc = "sweep"
  /\ idx <= Len(positions)
  /\ LET pos == positions[idx]
         flush == lineOffset < pos.Offset
         out1 == IF flush THEN Write(out, FALSE, Slice(line, lineOffset, pos.Offset))
                 ELSE out
         off1 == IF flush THEN pos.Offset ELSE lineOffset
     IN /\ lineOffset' = off1
        /\ IF off1 = pos.Offset
           THEN /\ lineProperties' = ApplyProperties(lineProperties, pos)
                /\ lineColorFG' = ApplyColor(lineColorFG, pos, ForegroundColor)
                /\ lineColorBG' = ApplyColor(lineColorBG, pos, BackgroundColor)
                /\ foundFG' = Found(lineColorFG', Len(patterns), ResetForeground)
                /\ foundBG' = Found(lineColorBG', Len(patterns), ResetBackground)
                /\ \E o \in KeyOrders(DOMAIN lineProperties') :
                     escape' = EscapeString(PropsString(lineProperties', o),
                                            foundFG', foundBG')
                /\ IF ShouldWrite(prevEscape, escape')
                   THEN /\ out' = Write(out1, TRUE, escape')
                        /\ prevEscape' = escape'
                   ELSE /\ out' = out1
                        /\ prevEscape' = prevEscape
           ELSE /\ out' = out1
                /\ UNCHANGED <<lineProperties, lineColorFG, lineColorBG, foundFG,
                               foundBG, escape, prevEscape>>
  /\ idx' = idx + 1
  /\ UNCHANGED <<patterns, bufferSize, input, srcErr, pc, line, readerErr,
                 lineMatches, positions, outMark, lineNum, ret>>
  /\ UNCHANGED <<hostVars, cmdVars>>

\* After the last position: the rest of the line, and back to the loop head.
FinishLine ==
  /\ pc = "sweep"
  /\ idx > Len(positions)
  /\ out' = Write(out, FALSE, LineTail(line, lineOffset))
  /\ pc' = LoopHead(readerErr)
  /\ ret' = LoopReturn(readerErr)
  /\ UNCHANGED <<patterns, bufferSize, input, srcErr, line, readerErr, lineMatches,
                 positions, idx, lineOffset, prevEscape, lineColorFG, lineColorBG,
                 lineProperties, foundFG, foundBG, escape, outMark, lineNum>>
  /\ UNCHANGED <<hostVars, cmdVars>>

Next == ReadLine \/ SweepStep \/ FinishLine

Spec == Init /\ [][Next]_vars

\* The runs checked for termination: the scenario lines and the streams of at
\* most MaxFairStream bytes.  processFile is sequential code: it takes its next
\* step whenever it has one.
FairInit == Init /\ (Len(input) <= MaxFairStream \/ patterns = <<PatError>>)

FairSpec == FairInit /\ [][Next]_vars /\ WF_vars(Next)

(***************************************************************************)
(* The command lines, with the files and the child process they name.      *)
(***************************************************************************)
MaxWords == 3     \* most words in the colorspec of the rules drawn word by word
MaxPipe == 2      \* most bytes the child process writes to one of its streams
MaxFairPipe == 1  \* the same, in the runs whose end is looked at

\* the rules that parsePattern is given
RuleA == <<"/", "(?P<x>a)", "/", "x", ":", "fg", " ", "red", " ", "bold">>
RuleB == <<"/", "(?P<y>b)", "/", "y", ":", "BG", " ", "green">>
RuleNone == <<"/", "b", "/">>
RuleSpaced == <<" ", "/", "(?P<x>a)", "/", " ", "x", " ", ":", "fg", " ", " ", "red", ",">>
RuleEmpty == <<" ">>
RuleNoSlash == <<"(?P<x>a)", "/", "x", ":", "red">>
RuleNoEnd == <<"/", "(?P<x>a)">>
RuleEmptyRE == <<"/", "/", "x", ":", "red">>
RuleBadRE == <<"/", "(?P<x>a", "/", "x", ":", "red">>
RuleBadGroup == <<"/", "(?P<x>a)", "/", "x", ":", "fg", ":", "red">>
RuleNoColon == <<"/", "(?P<x>a)", "/", "x">>
RuleUnknown == <<"/", "(?P<x>a)", "/", "x", ":", "fg", " ", "purple">>
RuleUnknownOther == <<"/", "(?P<x>a)", "/", "z", ":", "purple">>

GoodRules == {RuleA, RuleB, RuleNone, RuleSpaced}

BadRules ==
  {RuleEmpty, RuleNoSlash, RuleNoEnd, RuleEmptyRE, RuleBadRE, RuleBadGroup,
   RuleNoColon, RuleUnknown, RuleUnknownOther}

\* the words of a colorspec, "purple" being no keyword
Words == {"fg", "bg", "bright", "red", "blue", "bold", "purple"}

Keywords == Words \ {"purple"}

WordLists == UNION {[1..k -> Words] : k \in 0..MaxWords}

RECURSIVE Spaced(_)
Spaced(ws) ==
  IF Len(ws) <= 1 THEN ws ELSE <<Head(ws), " ">> \o Spaced(Tail(ws))

\* /(?P<x>a)/x:<ws>
RuleWith(ws) == <<"/", "(?P<x>a)", "/", "x", ":">> \o Spaced(ws)

\* the rules files
CommentLine == <<"#", " ", "rules">>
BlankLine == <<" ">>

NoFile == [given |-> FALSE, stat |-> "nil", open |-> "nil", lines |-> <<>>,
           readErr |-> "EOF"]

RulesFile(ls) == [NoFile EXCEPT !.given = TRUE, !.lines = ls]

RuleFiles ==
  {RulesFile(<<CommentLine, BlankLine, RuleA>>),
   RulesFile(<<CommentLine, BlankLine>>),
   [RulesFile(<<RuleA>>) EXCEPT !.stat = "ENOENT"],
   [RulesFile(<<RuleA>>) EXCEPT !.stat = "directory"],
   [RulesFile(<<RuleA>>) EXCEPT !.open = "EACCES"],
   [RulesFile(<<RuleA>>) EXCEPT !.readErr = ReadFailure]}
    \cup {RulesFile(<<RuleA, r>>) : r \in BadRules \ {RuleEmpty}}

\* the input files
InputFile == [open |-> "nil", content |-> <<"a", "\n">>, readErr |-> "EOF"]
InputFileMissing == [InputFile EXCEPT !.open = "ENOENT"]

\* the child process: whether it starts, and what it writes to its streams
Pipes(A) == UNION {[1..k -> A] : k \in 0..MaxPipe}

NoCommand == [given |-> FALSE, start |-> "nil", stdout |-> <<>>, stderr |-> <<>>,
              stdoutErr |-> "EOF"]

Commands ==
  {[NoCommand EXCEPT !.given = TRUE, !.stdout = o, !.stderr = e] :
     o \in Pipes(Alphabet), e \in Pipes({"b", "\n"})}
    \cup {[NoCommand EXCEPT !.given = TRUE, !.stdout = <<"a", "\n">>,
                            !.stderr = <<"b", "\n">>, !.stdoutErr = ReadFailure],
          [NoCommand EXCEPT !.given = TRUE, !.start = "ENOENT"]}

PlainArgv ==
  [file |-> NoFile, regexps |-> <<>>, command |-> FALSE, stdout |-> FALSE,
   stderr |-> FALSE, args |-> <<>>, cmd |-> NoCommand, stdin |-> <<"a", "b", "\n">>]

Argvs ==
  \* cfilter -e '/(?P<x>a)/x:<words>'
  {[PlainArgv EXCEPT !.regexps = <<RuleWith(ws)>>] : ws \in WordLists}
  \* cfilter [-f file] [-e rule]... [file]...
    \cup {[PlainArgv EXCEPT !.file = f, !.regexps = rs, !.args = as] :
            f \in RuleFiles \cup {NoFile},
            rs \in {<<>>, <<RuleB>>, <<RuleSpaced, RuleNone>>}
                     \cup {<<RuleB, r>> : r \in BadRules},
            as \in {<<>>, <<InputFile, InputFile>>, <<InputFile, InputFileMissing>>}}
  \* cfilter -1 or -2 without -c
    \cup {[PlainArgv EXCEPT !.regexps = <<RuleA>>, !.stdout = o, !.stderr = e] :
            o, e \in BOOLEAN}
  \* cfilter -c [-1] [-2] [-e rule]... [command]
    \cup {[PlainArgv EXCEPT !.regexps = <<RuleA, RuleB>>, !.command = TRUE,
                            !.stdout = o, !.stderr = e, !.cmd = c] :
            o, e \in BOOLEAN, c \in Commands \cup {NoCommand}}
    \cup {[PlainArgv EXCEPT !.regexps = rs, !.command = TRUE, !.stdout = TRUE,
                            !.stderr = TRUE, !.cmd = c] :
            rs \in {<<>>} \cup {<<RuleA, r>> : r \in BadRules},
            c \in {c \in Commands : Len(c.stdout) = 1 /\ Len(c.stderr) = 1}}

(***************************************************************************)
(* main                                                                    *)
(***************************************************************************)
\* the variables of processFile on entry: rd is the reader, w the writer
EntryContext(pats, rd, rdErr, w) ==
  [input |-> rd, srcErr |-> rdErr, pc |-> "read", line |-> <<>>,
   readerErr |-> "nil", lineMatches |-> FALSE, positions |-> <<>>, idx |-> 1,
   lineOffset |-> 0, prevEscape |-> <<>>,
   lineColorFG |-> [n \in 0..(Len(pats) - 1) |-> 0],
   lineColorBG |-> [n \in 0..(Len(pats) - 1) |-> 0],
   lineProperties |-> EmptyMap, foundFG |-> 0, foundBG |-> 0, escape |-> <<>>,
   out |-> w, outMark |-> Len(w), lineNum |-> 0, ret |-> "none"]

\* no call of processFile is under way
IdleContext == [EntryContext(<<>>, <<>>, "EOF", <<>>) EXCEPT !.pc = "idle"]

\* the variables of the call of processFile under way
Context ==
  [input |-> input, srcErr |-> srcErr, pc |-> pc, line |-> line,
   readerErr |-> readerErr, lineMatches |-> lineMatches, positions |-> positions,
   idx |-> idx, lineOffset |-> lineOffset, prevEscape |-> prevEscape,
   lineColorFG |-> lineColorFG, lineColorBG |-> lineColorBG,
   lineProperties |-> lineProperties, foundFG |-> foundFG, foundBG |-> foundBG,
   escape |-> escape, out |-> out, outMark |-> outMark, lineNum |-> lineNum,
   ret |-> ret]

\* the call of processFile with the variables c is the one under way
Load(c) ==
  /\ input' = c.input
  /\ srcErr' = c.srcErr
  /\ pc' = c.pc
  /\ line' = c.line
  /\ readerErr' = c.readerErr
  /\ lineMatches' = c.lineMatches
  /\ positions' = c.positions
  /\ idx' = c.idx
  /\ lineOffset' = c.lineOffset
  /\ prevEscape' = c.prevEscape
  /\ lineColorFG' = c.lineColorFG
  /\ lineColorBG' = c.lineColorBG
  /\ lineProperties' = c.lineProperties
  /\ foundFG' = c.foundFG
  /\ foundBG' = c.foundBG
  /\ escape' = c.escape
  /\ out' = c.out
  /\ outMark' = c.outMark
  /\ lineNum' = c.lineNum
  /\ ret' = c.ret

\* the process starts: nothing is parsed, no call of processFile is under way
MainInit ==
  /\ argv \in Argvs
  /\ mainPc = "options"
  /\ fileNum = 0
  /\ exitCode = Running
  /\ errlog = <<>>
  /\ patterns = <<>>
  /\ bufferSize = DefaultBufferSize
  /\ input = IdleContext.input
  /\ srcErr = IdleContext.srcErr
  /\ pc = IdleContext.pc
  /\ line = IdleContext.line
  /\ readerErr = IdleContext.readerErr
  /\ lineMatches = IdleContext.lineMatches
  /\ positions = IdleContext.positions
  /\ idx = IdleContext.idx
  /\ lineOffset = IdleContext.lineOffset
  /\ prevEscape = IdleContext.prevEscape
  /\ lineColorFG = IdleContext.lineColorFG
  /\ lineColorBG = IdleContext.lineColorBG
  /\ lineProperties = IdleContext.lineProperties
  /\ foundFG = IdleContext.foundFG
  /\ foundBG = IdleContext.foundBG
  /\ escape = IdleContext.escape
  /\ out = IdleContext.out
  /\ outMark = IdleContext.outMark
  /\ lineNum = IdleContext.lineNum
  /\ ret = IdleContext.ret
  /\ CmdIdle

\* os.Exit(code), after msg, if any, is written to os.Stderr
Exit(code, msg) ==
  /\ mainPc' = "exit"
  /\ exitCode' = code
  /\ errlog' = IF msg = "" THEN errlog ELSE Append(errlog, msg)
  /\ UNCHANGED <<argv, fileNum>>

fatal(msg) == Exit(1, msg)

\* a panic that nothing recovers ends the process with status 2
Panic(msg) == Exit(2, msg)

\* main goes on at the place to
Goto(to) ==
  /\ mainPc' = to
  /\ UNCHANGED <<argv, fileNum, exitCode, errlog>>

\* the error the callback of --file returns
StatError(file) ==
  IF ~file.given THEN "nil"
  ELSE IF file.stat = "directory" THEN "filename required"
  ELSE file.stat

\* opts.Parse(os.Args)
MainParseOptions ==
  /\ mainPc = "options"
  /\ IF StatError(argv.file) # "nil" THEN fatal(StatError(argv.file))
     ELSE Goto("rules")
  /\ UNCHANGED <<patterns, bufferSize, procVars, cmdVars>>

\* if len(patternsFile) > 0 { ... }
MainRulesFile ==
  /\ mainPc = "rules"
  /\ IF ~argv.file.given THEN Goto("regexps") /\ patterns' = patterns
     ELSE IF argv.file.open # "nil" THEN fatal(argv.file.open) /\ patterns' = patterns
     ELSE \E r \in {readPatternsFromFile(argv.file)} :
            /\ patterns' = r.patterns
            /\ IF r.panic THEN Panic("unknown keyword")
               ELSE IF r.err # "nil" THEN fatal(r.err)
               ELSE Goto("regexps")
  /\ UNCHANGED <<bufferSize, procVars, cmdVars>>

\* for i, s := range regexps { ... }
MainRegexps ==
  /\ mainPc = "regexps"
  /\ \E r \in {ParseRules(patterns, argv.regexps)} :
       /\ patterns' = r.patterns
       /\ IF r.panic THEN Panic("unknown keyword")
          ELSE IF r.err # "nil" THEN fatal(r.err)
          ELSE Goto("dispatch")
  /\ UNCHANGED <<bufferSize, procVars, cmdVars>>

\* from the check of len(patterns) to the call of processCommand or to the
\* call of processFile on os.Stdin
MainDispatch ==
  /\ mainPc = "dispatch"
  /\ IF Len(patterns) = 0 THEN
       fatal("patterns required") /\ UNCHANGED <<procVars, cmdVars>>
     ELSE IF argv.command THEN
       IF ~argv.cmd.given THEN
         Panic("index out of range") /\ UNCHANGED <<procVars, cmdVars>>
       ELSE
         /\ Goto("command")
         /\ filter' = [Stdout |-> argv.stdout, Stderr |-> argv.stderr]
         /\ cmdPc' = "setup"
         /\ UNCHANGED <<procVars, wg, drv, running, child>>
     ELSE IF argv.stdout THEN
       fatal("option --stdout implies the --command")
         /\ UNCHANGED <<procVars, cmdVars>>
     ELSE IF argv.stderr THEN
       fatal("option --stderr implies the --command")
         /\ UNCHANGED <<procVars, cmdVars>>
     ELSE IF Len(argv.args) = 0 THEN
       /\ Goto("stdin")
       /\ Load(EntryContext(patterns, argv.stdin, "EOF", out))
       /\ UNCHANGED cmdVars
     ELSE Goto("files") /\ UNCHANGED <<procVars, cmdVars>>
  /\ UNCHANGED <<patterns, bufferSize>>

\* processFile has returned to main
MainReturn ==
  /\ mainPc \in {"stdin", "input"}
  /\ pc = "done"
  /\ IF ret # "nil" THEN fatal(ret) ELSE Goto("files")
  /\ UNCHANGED <<patterns, bufferSize, procVars, cmdVars>>

\* for _, filename := range args { ... }, up to the call of processFile; after
\* the last file main returns
MainOpenFile ==
  /\ mainPc = "files"
  /\ IF fileNum = Len(argv.args) THEN Exit(0, "") /\ UNCHANGED procVars
     ELSE IF argv.args[fileNum + 1].open # "nil" THEN
       fatal(argv.args[fileNum + 1].open) /\ UNCHANGED procVars
     ELSE
       /\ mainPc' = "input"
       /\ fileNum' = fileNum + 1
       /\ Load(EntryContext(patterns, argv.args[fileNum + 1].content,
                            argv.args[fileNum + 1].readErr, out))
       /\ UNCHANGED <<argv, exitCode, errlog>>
  /\ UNCHANGED <<patterns, bufferSize, cmdVars>>

(***************************************************************************)
(* processCommand.  Each filtered stream has a goroutine that calls        *)
(* processFile on the pipe of the stream.  The variables of processFile    *)
(* belong to the goroutine that runs; those of the other one are kept in   *)
(* drv.                                                                    *)
(***************************************************************************)
StdStreams == {"stdout", "stderr"}

\* the writes the goroutine of the stream s has made to its sink
DriverOut(s) == IF running = s THEN out ELSE drv[s].ctx.out

\* the goroutine a filtered stream gets, or none
Driver(filtered, rd, rdErr) ==
  IF filtered
  THEN [state |-> "running", ctx |-> EntryContext(patterns, rd, rdErr, <<>>)]
  ELSE [state |-> "none", ctx |-> IdleContext]

\* from exec.Command to the second go statement
CmdSetup ==
  /\ cmdPc = "setup"
  /\ drv' = [s \in StdStreams |->
               IF s = "stdout"
               THEN Driver(filter.Stdout, argv.cmd.stdout, argv.cmd.stdoutErr)
               ELSE Driver(filter.Stderr, argv.cmd.stderr, "EOF")]
  /\ wg' = (IF filter.Stdout THEN 1 ELSE 0) + (IF filter.Stderr THEN 1 ELSE 0)
  /\ cmdPc' = "start"
  /\ UNCHANGED <<patterns, bufferSize, procVars, hostVars, filter, running, child>>

\* cmd.Start()
CmdStart ==
  /\ cmdPc = "start"
  /\ IF argv.cmd.start # "nil"
     THEN /\ fatal(argv.cmd.start)
          /\ cmdPc' = "fatal"
          /\ child' = child
     ELSE /\ cmdPc' = "wgwait"
          /\ child' = [kind |-> "running", status |-> 0]
          /\ UNCHANGED hostVars
  /\ UNCHANGED <<patterns, bufferSize, procVars, filter, wg, drv, running>>

\* a variant of Resume in which the goroutines share lineProperties
ResumeSharedProperties(c) == [c EXCEPT !.lineProperties = lineProperties]

\* the variables a goroutine finds when it goes on: they are declared in
\* processFile, so each call has its own, as it has left them
Resume(c) == c

\* The scheduler gives the processor to the goroutine of the stream s, which
\* has bytes or the end of its pipe to read once the child process runs.
Switch(s) ==
  /\ exitCode = Running
  /\ child # NoChild
  /\ running # s
  /\ drv[s].state = "running"
  /\ drv' = IF running = "none" THEN drv ELSE [drv EXCEPT ![running].ctx = Context]
  /\ running' = s
  /\ Load(Resume(drv[s].ctx))
  /\ UNCHANGED <<patterns, bufferSize, hostVars, filter, cmdPc, wg, child>>

\* processFile has returned to its goroutine: syncStdStreams, fatal on an
\* error, and the deferred wg.Done()
DriverDone ==
  /\ exitCode = Running
  /\ running # "none"
  /\ pc = "done"
  /\ IF ret # "nil"
     THEN /\ fatal(ret)
          /\ cmdPc' = "fatal"
          /\ UNCHANGED <<procVars, wg, drv, running>>
     ELSE /\ wg' = wg - 1
          /\ drv' = [drv EXCEPT ![running] = [state |-> "returned", ctx |-> Context]]
          /\ running' = "none"
          /\ Load(IdleContext)
          /\ UNCHANGED <<hostVars, cmdPc>>
  /\ UNCHANGED <<patterns, bufferSize, filter, child>>

\* a variant of WaitGroupZero that lets wg.Wait() return at once
WaitGroupAny(n) == TRUE

\* wg.Wait() returns when the counter is zero
WaitGroupZero(n) == n = 0

WgWait ==
  /\ cmdPc = "wgwait"
  /\ exitCode = Running
  /\ WaitGroupZero(wg)
  /\ cmdPc' = "cmdwait"
  /\ UNCHANGED <<patterns, bufferSize, procVars, hostVars, filter, wg, drv, running,
                 child>>

\* how the child process ends: it exits with a status, a signal kills it, or
\* cmd.Wait() fails after the child has exited with status 0
ExitStatuses == {0, 1, 3}

ChildOutcomes ==
  {[kind |-> "exited", status |-> st] : st \in ExitStatuses}
    \cup {[kind |-> "signaled", status |-> -1], [kind |-> "waitfailed", status |-> 0]}

\* a variant of RetCode that takes a nonzero status for a failure of cfilter
RetCodeFailure(outcome) ==
  IF outcome.kind = "waitfailed" \/ outcome.status # 0 THEN 1 ELSE 0

\* retCode after cmd.Wait(): nil when the child exits with 0, an ExitError
\* with the WaitStatus of the child otherwise, whose ExitStatus() is -1 when
\* a signal killed it
RetCode(outcome) ==
  IF outcome.kind = "waitfailed" THEN 1 ELSE outcome.status

\* the exit status os.Exit(code) gives the process
ExitStatus(code) == code % 256

\* from cmd.Wait() to os.Exit(retCode)
CmdWait ==
  /\ cmdPc = "cmdwait"
  /\ exitCode = Running
  /\ \E outcome \in ChildOutcomes :
       /\ child' = outcome
       /\ Exit(ExitStatus(RetCode(outcome)),
               IF outcome.kind = "waitfailed" THEN "wait" ELSE "")
  /\ cmdPc' = "exited"
  /\ UNCHANGED <<patterns, bufferSize, procVars, filter, wg, drv, running>>

ProgNext ==
  \/ MainParseOptions
  \/ MainRulesFile
  \/ MainRegexps
  \/ MainDispatch
  \/ MainReturn
  \/ MainOpenFile
  \/ ReadLine
  \/ SweepStep
  \/ FinishLine
  \/ CmdSetup
  \/ CmdStart
  \/ \E s \in StdStreams : Switch(s)
  \/ DriverDone
  \/ WgWait
  \/ CmdWait

\* The steps main takes before it reads any input.  main is the only
\* goroutine then: it takes its next step whenever it has one.
MainSteps == MainParseOptions \/ MainRulesFile \/ MainRegexps \/ MainDispatch

ProgSpec == MainInit /\ [][ProgNext]_vars

\* The runs whose end is looked at: those of a child process that writes at
\* most MaxFairPipe bytes to a stream.
FairMainInit ==
  /\ MainInit
  /\ Len(argv.cmd.stdout) <= MaxFairPipe
  /\ Len(argv.cmd.stderr) <= MaxFairPipe

FairProgSpec == FairMainInit /\ [][ProgNext]_vars /\ WF_vars(MainSteps)

(***************************************************************************)
(* Reading the state                                                       *)
(***************************************************************************)
\* the writes made for the line read last
LineOut == SubSeq(out, outMark + 1, Len(out))

IsEscapeWrite(w) == w.esc
IsPlainWrite(w) == ~w.esc

\* the input bytes among the writes ws, escapes removed
Plain(ws) ==
  LET p == SelectSeq(ws, IsPlainWrite) IN Flatten([i \in DOMAIN p |-> p[i].data])

\* the escape strings among the writes ws, in order
Escapes(ws) ==
  LET e == SelectSeq(ws, IsEscapeWrite) IN [i \in DOMAIN e |-> e[i].data]

\* the for loop is between two lines, or over, and has rendered the line read
\* last
LineDone == lineNum > 0 /\ pc \in {"read", "done"} /\ readerErr \in {"nil", "EOF"}

\* the literal lit occurs in ln
Occurs(lit, ln) ==
  \E i \in 0..(Len(ln) - Len(lit)) : SubSeq(ln, i + 1, i + Len(lit)) = lit

\* some pattern matches ln
SomeMatch(ln) == \E n \in DOMAIN patterns : Occurs(patterns[n].RE.lit, ln)

\* group captures a non-empty string in every match of pattern p
NonEmptyGroup(p, group) == p.RE.sub[group.Number][1] < p.RE.sub[group.Number][2]

\* some colorized group of a pattern matching ln captures a non-empty string
SomeSpan(ln) ==
  \E n \in DOMAIN patterns :
    /\ Occurs(patterns[n].RE.lit, ln)
    /\ \E g \in DOMAIN patterns[n].Groups :
         NonEmptyGroup(patterns[n], patterns[n].Groups[g])

(***************************************************************************)
(* C1: a line that no pattern matches is dropped: nothing is written for   *)
(* it, neither input bytes nor an escape.                                  *)
(***************************************************************************)
C1_Dropped ==
  (lineNum > 0 /\ Len(patterns) > 0 /\ ~SomeMatch(line)) => LineOut = <<>>

\* a non-empty unmatched line was dropped after an earlier line was written
C1_Witness ==
  /\ LineDone
  /\ line # <<>>
  /\ ~SomeMatch(line)
  /\ LineOut = <<>>
  /\ out # <<>>

(***************************************************************************)
(* C2: a line that is matched but has no non-empty colorized capture is    *)
(* written byte for byte, without any escape.                              *)
(***************************************************************************)
C2_PassThrough ==
  (LineDone /\ SomeMatch(line) /\ ~SomeSpan(line)) =>
     /\ Plain(LineOut) = line
     /\ Escapes(LineOut) = <<>>

\* the matching pattern has a colorized group whose capture is empty
C2_Witness ==
  /\ LineDone
  /\ SomeMatch(line)
  /\ ~SomeSpan(line)
  /\ \E n \in DOMAIN patterns :
       Occurs(patterns[n].RE.lit, line) /\ patterns[n].Groups # <<>>
  /\ Plain(LineOut) = line

(***************************************************************************)
(* C3: round trip: with the escapes removed, the output of a line with     *)
(* spans is the line: during the sweep the bytes before lineOffset, after  *)
(* it the whole line.                                                      *)
(***************************************************************************)
C3_RoundTrip ==
  /\ pc = "sweep" => Plain(LineOut) = SubSeq(line, 1, lineOffset)
  /\ (LineDone /\ positions # <<>>) => Plain(LineOut) = line

\* two spans of different patterns overlap in part, and the line is complete
C3_Witness ==
  /\ LineDone
  /\ \E i, j, k, l \in DOMAIN positions :
       /\ i < j /\ j < k /\ k < l
       /\ positions[i].Kind = LinePositionStartKind
       /\ positions[j].Kind = LinePositionStartKind
       /\ positions[k].Kind = LinePositionEndKind
       /\ positions[l].Kind = LinePositionEndKind
       /\ positions[i].Order = positions[k].Order
       /\ positions[j].Order = positions[l].Order
       /\ positions[i].Order # positions[j].Order
       /\ positions[j].Offset < positions[k].Offset
       /\ positions[k].Offset < positions[l].Offset
  /\ Len(Escapes(LineOut)) >= 3
  /\ Plain(LineOut) = line

(***************************************************************************)
(* Reading an escape string back, and the spans open at a point of the     *)
(* sweep, counted from the positions already processed.                    *)
(***************************************************************************)
DigitValue(ch) == CHOOSE d \in 0..9 : Digit(d) = ch

RECURSIVE ParseCodes(_, _)
ParseCodes(bytes, cur) ==
  IF bytes = <<>> THEN <<>>
  ELSE IF Head(bytes) \in {";", "m"} THEN <<cur>> \o ParseCodes(Tail(bytes), 0)
  ELSE ParseCodes(Tail(bytes), cur * 10 + DigitValue(Head(bytes)))

\* the numbers of the escape string e, in order
EscapeCodes(e) == ParseCodes(SubSeq(e, Len(AnsiStart) + 1, Len(e)), 0)

\* the property codes, the foreground and the background of e
PropCodes(e) == LET c == EscapeCodes(e) IN {c[i] : i \in 1..(Len(c) - 2)}
ForegroundOf(e) == LET c == EscapeCodes(e) IN c[Len(c) - 1]
BackgroundOf(e) == LET c == EscapeCodes(e) IN c[Len(c)]

OnCode(k) == AnsiProperties[k]
OffCode(k) == IF k = BoldProperty THEN 22 ELSE AnsiProperties[k] + 20

\* the sweep has processed at least one position of the line
Swept == pc = "sweep" /\ idx > 1

\* the positions processed so far
Processed == 1..(idx - 1)

\* the spans of pattern n (0-based) with attribute set c that are open
OpenSpans(n, c) ==
  Cardinality({i \in Processed : /\ positions[i].Kind = LinePositionStartKind
                                 /\ positions[i].Order = n
                                 /\ positions[i].Colorize = c})
  - Cardinality({i \in Processed : /\ positions[i].Kind = LinePositionEndKind
                                   /\ positions[i].Order = n
                                   /\ positions[i].Colorize = c})

\* the open spans that request property k
OpenRequests(k) ==
  Cardinality({i \in Processed : /\ positions[i].Kind = LinePositionStartKind
                                 /\ k \in DOMAIN positions[i].Colorize})
  - Cardinality({i \in Processed : /\ positions[i].Kind = LinePositionEndKind
                                   /\ k \in DOMAIN positions[i].Colorize})

\* the colours > 0 that the open spans of pattern n set on the channel key
OpenColors(n, key) ==
  {MapGet(patterns[n + 1].Groups[g].Colorize, key) :
     g \in {h \in DOMAIN patterns[n + 1].Groups :
              OpenSpans(n, patterns[n + 1].Groups[h].Colorize) > 0}} \ {0}

\* input bytes are written next under the escape written last
BytesFollow ==
  /\ Swept
  /\ \/ idx > Len(positions) /\ lineOffset < Len(line)
     \/ idx <= Len(positions) /\ lineOffset < positions[idx].Offset

PatternIndices == 0..(Len(patterns) - 1)

Highest(S) == CHOOSE n \in S : \A m \in S : m <= n

(***************************************************************************)
(* C4: priority resolution.  After each event the effective foreground is *)
(* the recorded contribution of the last declared pattern that has one     *)
(* (39 when none has), the background likewise (49); and bytes covered by  *)
(* open foreground spans of two patterns are rendered with a foreground of *)
(* the later declared pattern.                                             *)
(***************************************************************************)
C4_Contribution ==
  Swept =>
    LET fgs == {n \in PatternIndices : lineColorFG[n] > 0}
        bgs == {n \in PatternIndices : lineColorBG[n] > 0}
    IN /\ ForegroundOf(escape) =
            IF fgs = {} THEN 39 ELSE lineColorFG[Highest(fgs)]
       /\ BackgroundOf(escape) =
            IF bgs = {} THEN 49 ELSE lineColorBG[Highest(bgs)]

C4_PriorityResolution ==
  /\ C4_Contribution
  /\ BytesFollow =>
       LET open == {n \in PatternIndices : OpenColors(n, ForegroundColor) # {}}
       IN Cardinality(open) >= 2 =>
            ForegroundOf(prevEscape) \in OpenColors(Highest(open), ForegroundColor)

(***************************************************************************)
(* C5: property counting.  Every escape carries the on code of a property  *)
(* exactly while at least one open span requests it; its off code comes    *)
(* only when the last such span has ended.                                 *)
(***************************************************************************)
C5_PropertyCounting ==
  Swept =>
    \A k \in DOMAIN AnsiProperties :
      /\ OpenRequests(k) > 0 =>
           /\ OnCode(k) \in PropCodes(escape)
           /\ OffCode(k) \notin PropCodes(escape)
      /\ (OpenRequests(k) = 0 /\ k \in DOMAIN lineProperties) =>
           /\ OffCode(k) \in PropCodes(escape)
           /\ OnCode(k) \notin PropCodes(escape)

\* the first of two overlapping bold spans has just ended, the other is open
C5_Witness ==
  /\ Swept
  /\ positions[idx - 1].Kind = LinePositionEndKind
  /\ BoldProperty \in DOMAIN positions[idx - 1].Colorize
  /\ OpenRequests(BoldProperty) > 0
  /\ OnCode(BoldProperty) \in PropCodes(escape)

(***************************************************************************)
(* C6: the memory of the last escape written.  As claimed: it lasts for    *)
(* the stream, so that the escapes written to a stream never repeat: no    *)
(* escape equals the escape written before it, also across lines.          *)
(***************************************************************************)
C6_NoRepeatOnStream ==
  LET e == Escapes(out) IN \A i \in 1..(Len(e) - 1) : e[i] # e[i + 1]

(***************************************************************************)
(* C6 as amended: the memory lasts for one line.  prevEscape is empty when *)
(* the sweep of a line starts, so the first escape of a line is written    *)
(* whatever was written for earlier lines; within the output of one line   *)
(* no escape equals the escape written before it, and prevEscape is the    *)
(* escape written last for the line.                                       *)
(***************************************************************************)
C6_NoRepeatWithinLine ==
  LET e == Escapes(LineOut) IN
  /\ \A i \in 1..(Len(e) - 1) : e[i] # e[i + 1]
  /\ (pc = "sweep" /\ idx = 1) => (prevEscape = <<>> /\ e = <<>>)
  /\ Swept => (e # <<>> /\ prevEscape = e[Len(e)] /\ escape = prevEscape)

\* the first escape of a later line repeats the escape written last for an
\* earlier one, and a repeated escape was suppressed within the line
C6_Witness ==
  /\ lineNum >= 2
  /\ Swept
  /\ idx > 2
  /\ Len(Escapes(LineOut)) = 1
  /\ outMark > 0
  /\ Escapes(SubSeq(out, 1, outMark)) # <<>>
  /\ LET before == Escapes(SubSeq(out, 1, outMark))
     IN before[Len(before)] = Escapes(LineOut)[1]

FreshKeys ==
  {k \in DOMAIN AnsiProperties :
     \E i \in Processed : k \in DOMAIN positions[i].Colorize}

\* the contribution of pattern n on the channel key: the colour of its last
\* processed position when that is a start, none otherwise
FreshContribution(n, key) ==
  LET mine == {i \in Processed : positions[i].Order = n} IN
  IF mine = {} THEN 0
  ELSE LET last == Highest(mine) IN
       IF positions[last].Kind = LinePositionStartKind
       THEN MapGet(positions[last].Colorize, key)
       ELSE 0

FreshFound(key, reset) ==
  LET have == {n \in PatternIndices : FreshContribution(n, key) > 0} IN
  IF have = {} THEN reset ELSE FreshContribution(Highest(have), key)

\* the code of property k in an escape computed now
CodeNow(k) == IF OpenRequests(k) > 0 THEN OnCode(k) ELSE OffCode(k)

\* the escape e carries the colours of a sweep from zero and exactly one code
\* for each property key in K
EscapeOver(e, K) ==
  /\ ForegroundOf(e) = FreshFound(ForegroundColor, 39)
  /\ BackgroundOf(e) = FreshFound(BackgroundColor, 49)
  /\ PropCodes(e) = {CodeNow(k) : k \in K}
  /\ Len(EscapeCodes(e)) = Cardinality(K) + 2

(***************************************************************************)
(* C8 as claimed: the escapes computed for a line are those of a sweep     *)
(* that starts from a reset state: they depend on the patterns and on the  *)
(* bytes of the line alone.                                                *)
(***************************************************************************)
C8_FreshPerLine == Swept => EscapeOver(escape, FreshKeys)

(***************************************************************************)
(* C8 as amended: the state is made once per stream and never reset.       *)
(* Between two lines every counter is 0 and every contribution is none,    *)
(* but the property keys requested on earlier lines stay in                *)
(* lineProperties: an escape computed for a line carries the colours of a  *)
(* sweep from zero and one code for every key of lineProperties, the keys  *)
(* of earlier lines included.                                              *)
(***************************************************************************)
C8_CarriedKeys ==
  /\ pc \in {"read", "done"} =>
       /\ \A k \in DOMAIN lineProperties : lineProperties[k] = 0
       /\ \A n \in PatternIndices : lineColorFG[n] = 0 /\ lineColorBG[n] = 0
  /\ Swept =>
       /\ FreshKeys \subseteq DOMAIN lineProperties
       /\ EscapeOver(escape, DOMAIN lineProperties)

\* an escape of a later line carries the off code of a property that only an
\* earlier line requested
C8_Witness ==
  /\ lineNum >= 2
  /\ Swept
  /\ \E k \in (DOMAIN lineProperties) \ FreshKeys : OffCode(k) \in PropCodes(escape)

(***************************************************************************)
(* C9: two adjacent spans of two different patterns.                       *)
(***************************************************************************)
\* the positions of the line are those of two spans [a, b) and [b, c) of two
\* different patterns with different attribute sets
AdjacentPair ==
  /\ Len(positions) = 4
  /\ positions[1].Kind = LinePositionStartKind
  /\ positions[4].Kind = LinePositionEndKind
  /\ positions[1].Order # positions[4].Order
  /\ positions[1].Colorize # positions[4].Colorize
  /\ positions[1].Offset < positions[2].Offset
  /\ positions[2].Offset = positions[3].Offset
  /\ positions[3].Offset < positions[4].Offset
  /\ \E i, j \in {2, 3} :
       /\ positions[i].Kind = LinePositionEndKind
       /\ positions[i].Order = positions[1].Order
       /\ positions[j].Kind = LinePositionStartKind
       /\ positions[j].Order = positions[4].Order

\* e reverts every property, the foreground and the background
IsDefault(e) ==
  /\ ForegroundOf(e) = 39
  /\ BackgroundOf(e) = 49
  /\ PropCodes(e) \subseteq {OffCode(k) : k \in DOMAIN AnsiProperties}

\* C9 as claimed: exactly the three escapes open, switch and close are written
C9_ThreeEscapes ==
  (LineDone /\ AdjacentPair) => Len(Escapes(LineOut)) = 3

(***************************************************************************)
(* C9 as amended: one escape is computed per span event, four in all, and  *)
(* each is written unless it equals the escape written before it on the    *)
(* line.  The first written opens the first span, the last written reverts *)
(* to the default, and when the end of the first span is processed before  *)
(* the start of the second a revert to the default is written at the       *)
(* shared boundary as well.                                                *)
(***************************************************************************)
C9_AtMostFour ==
  (LineDone /\ AdjacentPair) =>
    LET e == Escapes(LineOut)
        first == positions[1].Colorize
    IN /\ Len(e) >= 1 /\ Len(e) <= 4
       /\ \A i \in 1..(Len(e) - 1) : e[i] # e[i + 1]
       /\ ForegroundOf(e[1]) =
            IF MapGet(first, ForegroundColor) > 0
            THEN MapGet(first, ForegroundColor) ELSE 39
       /\ BackgroundOf(e[1]) =
            IF MapGet(first, BackgroundColor) > 0
            THEN MapGet(first, BackgroundColor) ELSE 49
       /\ IsDefault(e[Len(e)])
       /\ (positions[2].Kind = LinePositionEndKind /\ ~IsDefault(e[1])) =>
            (Len(e) >= 2 /\ IsDefault(e[2]))

\* four escapes were written, the second a revert at the shared boundary
C9_Witness ==
  /\ LineDone
  /\ AdjacentPair
  /\ Len(Escapes(LineOut)) = 4
  /\ IsDefault(Escapes(LineOut)[2])
  /\ ~IsDefault(Escapes(LineOut)[3])

(***************************************************************************)
(* C10: the rule /(?P<x>ERROR)/x:fg red bold on the line                   *)
(* "an ERROR occurred", the first of its stream: "an ", ESC[1;31;49m,      *)
(* "ERROR", ESC[22;39;49m, " occurred", and nothing else.                  *)
(***************************************************************************)
C10_Scenario ==
  (LineDone /\ lineNum = 1 /\ patterns = <<PatError>> /\ line = LineError) =>
    out = << [esc |-> FALSE, data |-> <<"a", "n", " ">>],
             [esc |-> TRUE,
              data |-> <<"ESC", "[", "1", ";", "3", "1", ";", "4", "9", "m">>],
             [esc |-> FALSE, data |-> <<"E", "R", "R", "O", "R">>],
             [esc |-> TRUE,
              data |-> <<"ESC", "[", "2", "2", ";", "3", "9", ";", "4", "9", "m">>],
             [esc |-> FALSE,
              data |-> <<" ", "o", "c", "c", "u", "r", "r", "e", "d">>] >>

\* the scenario line was rendered, with its two escapes
C10_Witness ==
  /\ LineDone
  /\ lineNum = 1
  /\ patterns = <<PatError>>
  /\ line = LineError
  /\ Len(Escapes(out)) = 2
  /\ Plain(out) = LineError

(***************************************************************************)
(* C15: arrival order.  Nothing written is moved or changed by a later     *)
(* write; a line is read only at the head of the for loop, when the output *)
(* of the line read before it is complete; and every write between two     *)
(* reads belongs to the line read last, whose bytes are written in order.  *)
(***************************************************************************)
C15_ArrivalOrder ==
  [][ /\ Len(out') >= Len(out)
      /\ SubSeq(out', 1, Len(out)) = out
      /\ lineNum' # lineNum =>
           /\ pc = "read"
           /\ lineNum' = lineNum + 1
           /\ (LineDone /\ LineOut # <<>>) => Plain(LineOut) = line
           /\ SubSeq(out', 1, outMark') = out
      /\ lineNum' = lineNum =>
           /\ line' = line
           /\ outMark' = outMark
           /\ \E n \in 0..Len(line) : Plain(LineOut') = SubSeq(line, 1, n)
    ]_vars

\* two lines were both written, each with escapes, the earlier one first
C15_Witness ==
  /\ LineDone
  /\ lineNum >= 2
  /\ outMark > 0
  /\ Escapes(SubSeq(out, 1, outMark)) # <<>>
  /\ Escapes(LineOut) # <<>>
  /\ Plain(out) = Plain(SubSeq(out, 1, outMark)) \o line

(***************************************************************************)
(* C17: the property codes of an escape.                                   *)
(***************************************************************************)
\* the property keys that some group of some rule requests
RuleKeys ==
  {k \in DOMAIN AnsiProperties :
     \E n \in DOMAIN patterns : \E g \in DOMAIN patterns[n].Groups :
       k \in DOMAIN patterns[n].Groups[g].Colorize}

\* e has exactly one code of property k: the on code iff on
HasOneCode(e, k, on) ==
  LET c == EscapeCodes(e) IN
  /\ Cardinality({i \in 1..(Len(c) - 2) : c[i] \in {OnCode(k), OffCode(k)}}) = 1
  /\ (IF on THEN OnCode(k) ELSE OffCode(k)) \in PropCodes(e)

\* e is ESC[ codes ; foreground ; background m with the colours found
WellFormed(e) ==
  /\ Len(e) > Len(AnsiStart)
  /\ SubSeq(e, 1, Len(AnsiStart)) = AnsiStart
  /\ e[Len(e)] = "m"
  /\ ForegroundOf(e) = foundFG
  /\ BackgroundOf(e) = foundBG

\* C17 as claimed: every escape has one code for each of the four property
\* keys, from the first escape of the stream on
C17_AllFourKeys ==
  Swept =>
    /\ WellFormed(escape)
    /\ Len(EscapeCodes(escape)) = Cardinality(DOMAIN AnsiProperties) + 2
    /\ \A k \in DOMAIN AnsiProperties :
         HasOneCode(escape, k, MapGet(lineProperties, k) > 0)

(***************************************************************************)
(* C17 as amended: an escape has one code for each key of lineProperties   *)
(* and for no other key.  A key enters lineProperties with the first span  *)
(* event of the stream whose group requests it: on the first line the keys *)
(* are those of the events processed so far, and a property that no rule   *)
(* requests never gets a code.                                             *)
(***************************************************************************)
C17_TouchedKeys ==
  Swept =>
    /\ WellFormed(escape)
    /\ Len(EscapeCodes(escape)) = Cardinality(DOMAIN lineProperties) + 2
    /\ \A k \in DOMAIN lineProperties :
         HasOneCode(escape, k, lineProperties[k] > 0)
    /\ FreshKeys \subseteq DOMAIN lineProperties
    /\ DOMAIN lineProperties \subseteq RuleKeys
    /\ lineNum = 1 => DOMAIN lineProperties = FreshKeys

\* the first escape of a stream is written without any property code, under a
\* rule that requests inverse for a span not yet open
C17_Witness ==
  /\ Swept
  /\ lineNum = 1
  /\ idx = 2
  /\ EscapeCodes(escape) = <<39, 46>>
  /\ InverseProperty \in RuleKeys
  /\ out # <<>>
  /\ out[Len(out)] = [esc |-> TRUE, data |-> escape]

(***************************************************************************)
(* C18: the positions are swept in ascending offset, and positions with    *)
(* the same offset in the order of their appends, which is the order a     *)
(* stable sort leaves them in.                                             *)
(***************************************************************************)
Ascending(ps) == \A i, j \in DOMAIN ps : i < j => ps[i].Offset <= ps[j].Offset

C18_StableSort ==
  pc = "sweep" =>
    /\ Ascending(positions)
    /\ positions = InsertionSort(CollectPositions(patterns, line))

(***************************************************************************)
(* C19: processFile returns on every finite input.  At the end of the      *)
(* stream it returns nil with every byte read and the last line rendered,  *)
(* newline or not; on a read failure it returns the error with nothing     *)
(* written for the data of the failing read, and it reads no more.         *)
(***************************************************************************)
C19_Returns ==
  /\ <>[](pc = "done")
  /\ [](pc = "done" =>
          /\ ret = (IF srcErr = "EOF" THEN "nil" ELSE srcErr)
          /\ readerErr = srcErr
          /\ input = <<>>
          /\ ret = "nil" => (SomeMatch(line) => Plain(LineOut) = line)
          /\ ret # "nil" => LineOut = <<>>)
  /\ [](pc # "done" => ret = "none")
  /\ [][pc = "done" => lineNum' = lineNum]_vars

\* a read failed: the data that came with the error holds a match and was not
\* written, after an earlier line was
C19_Witness ==
  /\ pc = "done"
  /\ ret = ReadFailure
  /\ SomeSpan(line)
  /\ LineOut = <<>>
  /\ out # <<>>

(***************************************************************************)
(* C20: the counters balance.  During the sweep every counter is the       *)
(* number of open spans that request its property, never below 0.  After   *)
(* the last position of a line every counter is 0 and every contribution   *)
(* is none, the escape computed last reverts everything and is the escape  *)
(* written last; the sweep of the next line starts from these values.      *)
(***************************************************************************)
C20_Balanced ==
  /\ pc = "sweep" =>
       \A k \in DOMAIN lineProperties :
         lineProperties[k] >= 0 /\ lineProperties[k] = OpenRequests(k)
  /\ (pc = "sweep" /\ (idx = 1 \/ idx > Len(positions))) =>
       /\ \A k \in DOMAIN lineProperties : lineProperties[k] = 0
       /\ \A n \in PatternIndices : lineColorFG[n] = 0 /\ lineColorBG[n] = 0
  /\ (pc = "sweep" /\ idx > Len(positions)) =>
       /\ IsDefault(escape)
       /\ PropCodes(escape) = {OffCode(k) : k \in DOMAIN lineProperties}
       /\ prevEscape = escape
  /\ (LineDone /\ positions # <<>>) =>
       LET e == Escapes(LineOut) IN e # <<>> /\ IsDefault(e[Len(e)])

\* the last position of a later line is processed: two spans requesting bold
\* overlapped on it, and everything is reverted
C20_Witness ==
  /\ pc = "sweep"
  /\ idx > Len(positions)
  /\ lineNum >= 2
  /\ \E i, j \in DOMAIN positions :
       /\ i < j
       /\ positions[i].Kind = LinePositionStartKind
       /\ positions[j].Kind = LinePositionStartKind
       /\ BoldProperty \in DOMAIN positions[i].Colorize
       /\ BoldProperty \in DOMAIN positions[j].Colorize
       /\ \A m \in (i + 1)..j : positions[m].Kind = LinePositionStartKind
  /\ lineProperties[BoldProperty] = 0
  /\ IsDefault(escape)

(***************************************************************************)
(* processFile run alone, as a function of its arguments: the sets of the  *)
(* write sequences it can make.  s holds the variables that live across    *)
(* the lines and the writes made so far.                                   *)
(***************************************************************************)
\* the loop over positions from the index i on, and the write after it
RECURSIVE SweepFrom(_, _, _, _)
SweepFrom(npat, ln, ps, s) ==
  IF s.i > Len(ps)
  THEN {[s EXCEPT !.w = Write(s.w, FALSE, LineTail(ln, s.off))]}
  ELSE
    LET pos == ps[s.i]
        flush == s.off < pos.Offset
        w1 == IF flush THEN Write(s.w, FALSE, Slice(ln, s.off, pos.Offset)) ELSE s.w
        off1 == IF flush THEN pos.Offset ELSE s.off
        props == ApplyProperties(s.props, pos)
        fg == ApplyColor(s.fg, pos, ForegroundColor)
        bg == ApplyColor(s.bg, pos, BackgroundColor)
        Esc(o) == EscapeString(PropsString(props, o),
                               Found(fg, npat, ResetForeground),
                               Found(bg, npat, ResetBackground))
    IN IF off1 # pos.Offset
       THEN SweepFrom(npat, ln, ps, [s EXCEPT !.i = s.i + 1, !.w = w1, !.off = off1])
       ELSE UNION {SweepFrom(npat, ln, ps,
                     [i |-> s.i + 1, off |-> off1, props |-> props, fg |-> fg,
                      bg |-> bg,
                      prev |-> IF ShouldWrite(s.prev, Esc(o)) THEN Esc(o) ELSE s.prev,
                      w |-> IF ShouldWrite(s.prev, Esc(o)) THEN Write(w1, TRUE, Esc(o))
                            ELSE w1]) : o \in KeyOrders(DOMAIN props)}

\* the for loop from the bytes rest of the reader on
RECURSIVE LinesFrom(_, _, _, _)
LinesFrom(pats, rest, rdErr, s) ==
  LET r == ReadSlice(rest, NewReaderSize(DefaultBufferSize), rdErr)
      err == IF r.err = "ErrBufferFull" THEN "nil" ELSE r.err
      collected == CollectPositions(pats, r.line)
      Rest(t) == IF err = "nil" THEN LinesFrom(pats, r.rest, rdErr, t) ELSE {t.w}
  IN IF IsReadFailure(err) THEN {s.w}
     ELSE IF Len(collected) > 0
     THEN UNION {UNION {Rest(t) : t \in SweepFrom(Len(pats), r.line, ps,
                                      [s EXCEPT !.i = 1, !.off = 0, !.prev = <<>>])} :
                   ps \in SortOutcomes(collected)}
     ELSE Rest([s EXCEPT !.w = IF LineMatches(pats, r.line)
                                THEN Write(s.w, FALSE, r.line) ELSE s.w])

AloneOutputs(pats, rd, rdErr) ==
  LinesFrom(pats, rd, rdErr,
            [i |-> 1, off |-> 0, props |-> EmptyMap,
             fg |-> [n \in 0..(Len(pats) - 1) |-> 0],
             bg |-> [n \in 0..(Len(pats) - 1) |-> 0], prev |-> <<>>, w |-> <<>>])

\* the stream s is filtered
Filtered(s) == IF s = "stdout" THEN filter.Stdout ELSE filter.Stderr

\* what the child process writes to the stream s, and how the pipe ends
PipeBytes(s) == IF s = "stdout" THEN argv.cmd.stdout ELSE argv.cmd.stderr
PipeError(s) == IF s = "stdout" THEN argv.cmd.stdoutErr ELSE "EOF"

\* the goroutines exist
DriversSet == cmdPc \notin {"idle", "setup"}

\* the bytes of a sequence of writes
Bytes(ws) == Flatten([i \in DOMAIN ws |-> ws[i].data])

\* C11: in command mode with both streams filtered, whatever the interleaving
\* of the two goroutines, what a goroutine that has returned has written to
\* its sink is what processFile writes when it runs alone on the bytes of the
\* pipe, and no step changes the compiled patterns.
C11_Independent ==
  /\ [](DriversSet /\ filter.Stdout /\ filter.Stderr =>
          \A s \in StdStreams :
            drv[s].state = "returned" =>
              drv[s].ctx.out \in AloneOutputs(patterns, PipeBytes(s), PipeError(s)))
  /\ [][DriversSet => patterns' = patterns]_vars

C11_Witness ==
  /\ DriversSet
  /\ filter.Stdout /\ filter.Stderr
  /\ drv["stdout"].state = "returned"
  /\ drv["stderr"].state = "running"
  /\ running = "stderr"
  /\ pc = "sweep"
  /\ Len(drv["stdout"].ctx.out) > 2
  /\ \E w \in DOMAIN drv["stdout"].ctx.out : drv["stdout"].ctx.out[w].esc

\* C12: the parent calls cmd.Wait() and exits with the status of the child
\* only after every goroutine it started has read its pipe to the end and
\* has returned from processFile.
C12_WaitsForDrivers ==
  (cmdPc \in {"cmdwait", "exited"} \/ child.kind \notin {"none", "running"}) =>
    \A s \in StdStreams :
      Filtered(s) =>
        /\ drv[s].state = "returned"
        /\ drv[s].ctx.pc = "done"
        /\ drv[s].ctx.ret = "nil"
        /\ drv[s].ctx.readerErr = "EOF"
        /\ drv[s].ctx.input = <<>>
        /\ wg = 0

C12_Witness ==
  /\ cmdPc = "exited"
  /\ filter.Stdout /\ filter.Stderr
  /\ child = [kind |-> "exited", status |-> 3]
  /\ exitCode = 3
  /\ Len(drv["stdout"].ctx.out) > 2
  /\ Len(drv["stderr"].ctx.out) > 2

\* C13: when the child has started, the goroutines have returned without a
\* read error and the child exits with a status, the process exits with that
\* status, zero or not, and reports no error.
C13_ChildStatus ==
  cmdPc = "exited" /\ child.kind = "exited" =>
    /\ exitCode = child.status
    /\ errlog = <<>>

C13_Witness ==
  /\ cmdPc = "exited"
  /\ child = [kind |-> "exited", status |-> 1]
  /\ exitCode = 1
  /\ filter.Stdout /\ ~filter.Stderr
  /\ drv["stdout"].ctx.out # <<>>
  /\ errlog = <<>>

\* the rule lines that do not follow /regexp/name:colorspec,... or that use a
\* word that is no keyword
BadRuleLines ==
  BadRules \cup {RuleWith(ws) : ws \in {x \in WordLists : \E i \in DOMAIN x : x[i] \notin Keywords}}

\* the lines of a rules file that are rules
SkippedLines == {CommentLine, BlankLine}

\* the command line a has a configuration error: the rules file can not be
\* read, a rule is malformed or names an unknown keyword, or there is no rule
ConfigBad(a) ==
  \/ a.file.given /\ (a.file.stat # "nil" \/ a.file.open # "nil" \/ a.file.readErr # "EOF")
  \/ a.file.given /\ \E i \in DOMAIN a.file.lines :
                       a.file.lines[i] \in BadRuleLines \ SkippedLines
  \/ \E i \in DOMAIN a.regexps : a.regexps[i] \in BadRuleLines
  \/ /\ a.regexps = <<>>
     /\ a.file.given => \A i \in DOMAIN a.file.lines : a.file.lines[i] \in SkippedLines

\* no input is read and nothing is written
NothingDone ==
  /\ pc = "idle"
  /\ lineNum = 0
  /\ out = <<>>
  /\ fileNum = 0
  /\ cmdPc = "idle"
  /\ child = NoChild

\* C14: with a configuration error the process exits, with a status that is
\* not zero, and up to then no input line is read from a file, from stdin or
\* from a child process, and nothing is written to the sink.
C14_ConfigErrors ==
  /\ [](ConfigBad(argv) => NothingDone)
  /\ [](ConfigBad(argv) /\ mainPc = "exit" => exitCode \in 1..255)
  /\ [](ConfigBad(argv) => <>(mainPc = "exit"))

C14_Witness ==
  /\ ConfigBad(argv)
  /\ argv.command /\ argv.cmd.given
  /\ mainPc = "exit"
  /\ exitCode = 2
  /\ patterns = <<PatA>>
  /\ NothingDone

ValidForeground == (30..37) \cup (90..97)
ValidBackground == (40..47) \cup (100..107)

\* C16: in every pattern ParseColorize has contributed to, a foreground key
\* holds a code of 30..37 or 90..97 and a background key a code of 40..47 or
\* 100..107.
C16_ValidCodes ==
  \A n \in DOMAIN patterns :
    \A g \in DOMAIN patterns[n].Groups :
      LET c == patterns[n].Groups[g].Colorize IN
        /\ ForegroundColor \in DOMAIN c => c[ForegroundColor] \in ValidForeground
        /\ BackgroundColor \in DOMAIN c => c[BackgroundColor] \in ValidBackground

\* C21: at every point of the sweep, a pattern with an open span that sets a
\* foreground has a recorded foreground contribution, and a pattern with an
\* open span that sets a background has a recorded background contribution,
\* also when the spans are those of two groups of one pattern.
C21_OpenSpanRecorded ==
  Swept =>
    \A n \in PatternIndices :
      /\ OpenColors(n, ForegroundColor) # {} => lineColorFG[n] > 0
      /\ OpenColors(n, BackgroundColor) # {} => lineColorBG[n] > 0

\* what an escape string tells the terminal: its property codes as a set,
\* its foreground and its background
Meaning(e) == <<PropCodes(e), ForegroundOf(e), BackgroundOf(e)>>

\* C22: the order of the property codes in an escape string is fixed, so a
\* sweep step that leaves the active state as it was builds the escape string
\* again and writes nothing: two escapes written one after the other for a
\* line never hold the same codes.
C22_FixedOrder ==
  LET e == Escapes(LineOut) IN
  \A i \in 1..(Len(e) - 1) : Meaning(e[i]) # Meaning(e[i + 1])

====
